---- MODULE Spec2Model ----
(***************************************************************************)
(* Model of the invsto ingestion pipeline: the strict row validator and    *)
(* batch parser of app/csv_parser.py (CSVParser), and the three paths that *)
(* write rows to the stock_data table: POST /data (app/api.py add_data),   *)
(* StockDataImporter (app/import_data.py) and LocalDataImporter            *)
(* (app/import_local_data.py).                                             *)
(*                                                                         *)
(* Python values are modelled as follows.                                  *)
(*   str            a TLA+ string                                          *)
(*   str or None    [none |-> BOOLEAN, s |-> STRING]  (a DictReader cell)  *)
(*   float          [nan |-> BOOLEAN, v |-> Int]; comparisons with a NaN   *)
(*                  operand are False, as in IEEE 754 / Python             *)
(*   datetime       <<year, month, day, hour, minute, second>>             *)
(*   a call         [exc |-> name of the exception raised, "" if none,     *)
(*                   val |-> the value returned]                           *)
(***************************************************************************)
EXTENDS Integers, Sequences, FiniteSets, TLC

VARIABLES
    row,            \* validate_row: the dict handed to validate_row
    result,         \* validate_row: what the call produced
    row_pc,         \* validate_row: "input" before the call, "validated" after
    fs,             \* parse_csv: the file at csv_file_path
    parsed_data,    \* CSVParser.parsed_data
    invalid_rows,   \* CSVParser.invalid_rows
    statistics,     \* CSVParser.statistics
    ret,            \* parse_csv: value returned by the last call ("" before any)
    calls,          \* parse_csv: number of calls made on this CSVParser
    store,          \* the committed rows of the stock_data table, in insertion order
    request,        \* the last request or import run on the table: its input
    response,       \* what the last request or import run on the table produced
    ops,            \* number of requests and import runs made on the table
    query,          \* get_strategy_performance: its parameters and what the database does
    strategy_df,    \* get_strategy_performance: the DataFrame df it computed (<<>> if none)
    summary,        \* get_strategy_performance: its answer (<<>> before the call)
    verifier,       \* DataVerifier: the table it reads and what the database does
    verification    \* run_verification: its report and the value returned (<<>> before)

vars == <<row, result, row_pc, fs, parsed_data, invalid_rows, statistics, ret, calls,
          store, request, response, ops, query, strategy_df, summary,
          verifier, verification>>

rowVars == <<row, result, row_pc>>
parserVars == <<fs, parsed_data, invalid_rows, statistics, ret, calls>>
storeVars == <<store, request, response, ops>>
signalVars == <<query, strategy_df, summary>>
verifyVars == <<verifier, verification>>

---------------------------------------------------------------------------
(* Bounds of the model *)

\* prices written in the files are 1..MaxPrice
MaxPrice == 3
\* volumes written in the files are -1..MaxVolume
MaxVolume == 1
\* a file holds at most MaxLines lines after its header
MaxLines == 3
\* parse_csv is called at most MaxCalls times on one CSVParser
MaxCalls == 2
\* at most MaxOps requests and import runs are made on the table
MaxOps == 1
\* a file handed to an importer holds at most MaxImportLines lines after its header
MaxImportLines == 3
\* rows per executemany + commit in insert_data_batch; stands for batch_size = 1000
BatchSize == 2
\* rows between two commits in insert_data; stands for the 100 of "% 100"
CommitEvery == 2
\* closes returned by the query of get_strategy_performance are 1..MaxClose
MaxClose == 3
\* the query returns at most MaxSeries rows
MaxSeries == 4
\* short_window and long_window are 0..MaxWindow
MaxWindow == 3
\* rows of the table DataVerifier reads
MaxTableRows == 2

---------------------------------------------------------------------------
(* Text of the cells *)

\* csv_parser.py:31, in file order
expected_columns == <<"datetime", "close", "high", "low", "open", "volume", "instrument">>

DatetimeTexts ==
    { "2024-01-15 09:30:00", "2024-01-16 10:00:00",
      "2024-1-15 9:30:00",          \* not zero-padded
      "2024-01-15T09:30:00",        \* ISO 'T' separator
      "2024-01-15" }                \* no time of day

PriceValues == 1..MaxPrice
PriceTexts == {ToString(n) : n \in PriceValues} \cup {"nan", "abc"}

VolumeValues == (-1)..MaxVolume
VolumeTexts == {ToString(n) : n \in VolumeValues} \cup {"1.5", "abc"}

InstrumentTexts == {"HINDALCO", " TCS ", "   "}

\* the text domain of each column, by position in expected_columns
ColumnTexts(i) ==
    CASE i = 1 -> DatetimeTexts
      [] i \in 2..5 -> PriceTexts
      [] i = 6 -> VolumeTexts
      [] i = 7 -> InstrumentTexts

---------------------------------------------------------------------------
(* Python conversions *)

Str(s) == [none |-> FALSE, s |-> s]
None == [none |-> TRUE, s |-> ""]

Num(n) == [nan |-> FALSE, v |-> n]
NaN == [nan |-> TRUE, v |-> 0]

\* float comparisons: any comparison with NaN is False
FLt(a, b) == ~a.nan /\ ~b.nan /\ a.v < b.v
FGt(a, b) == FLt(b, a)
FLe(a, b) == ~a.nan /\ ~b.nan /\ a.v <= b.v

\* outcome of a call: raised e, returned v, returned None
Raise(e) == [exc |-> e, none |-> TRUE, val |-> <<>>]
Return(v) == [exc |-> "", none |-> FALSE, val |-> v]
ReturnNone == [exc |-> "", none |-> TRUE, val |-> <<>>]

\* the numbers whose decimal text occurs in the files
NumberValues == PriceValues \cup VolumeValues

\* datetime.strptime(s, '%Y-%m-%d %H:%M:%S'): %m %d %H accept one digit;
\* text that does not match the whole format raises ValueError; None raises TypeError
strptime(x) ==
    IF x.none THEN Raise("TypeError")
    ELSE CASE x.s = "2024-01-15 09:30:00" -> Return(<<2024, 1, 15, 9, 30, 0>>)
           [] x.s = "2024-01-16 10:00:00" -> Return(<<2024, 1, 16, 10, 0, 0>>)
           [] x.s = "2024-1-15 9:30:00" -> Return(<<2024, 1, 15, 9, 30, 0>>)
           [] OTHER -> Raise("ValueError")

\* float(s): decimal text and "nan" convert; other text raises ValueError; None
\* raises TypeError.  The floats of the model are whole numbers: the text "1.5"
\* occurs in volume cells only, which go to int(), never to float()
PyFloat(x) ==
    IF x.none THEN Raise("TypeError")
    ELSE IF \E n \in NumberValues : ToString(n) = x.s
         THEN Return(Num(CHOOSE n \in NumberValues : ToString(n) = x.s))
    ELSE IF x.s = "nan" THEN Return(NaN)
    ELSE Raise("ValueError")

\* int(s): integer text converts; "1.5", "nan" and other text raise ValueError; None raises TypeError
PyInt(x) ==
    IF x.none THEN Raise("TypeError")
    ELSE IF \E n \in NumberValues : ToString(n) = x.s
         THEN Return(CHOOSE n \in NumberValues : ToString(n) = x.s)
    ELSE Raise("ValueError")

\* s.strip(); None has no strip (AttributeError)
strip(x) ==
    IF x.none THEN Raise("AttributeError")
    ELSE CASE x.s = " TCS " -> Return("TCS")
           [] x.s = "   " -> Return("")
           [] OTHER -> Return(x.s)

\* csv.DictReader: one dict per line, keyed by the header; cells missing at the
\* end of a short line are None (restval)
DictRow(cells) ==
    [f \in {expected_columns[i] : i \in 1..7} |->
        LET i == CHOOSE j \in 1..7 : expected_columns[j] = f
        IN  IF i <= Len(cells) THEN Str(cells[i]) ELSE None]

---------------------------------------------------------------------------
(* CSVParser: the strict row validator *)

\* validate_datetime: ValueError becomes None, any other exception propagates
validate_datetime(datetime_str) ==
    LET r == strptime(datetime_str)
    IN  IF r.exc = "ValueError" THEN ReturnNone ELSE r

\* validate_numeric without its except clause
validate_numeric_uncaught(value) == PyFloat(value)

\* validate_numeric: ValueError becomes None; a negative value is only logged
validate_numeric(value) ==
    LET r == PyFloat(value)
    IN  IF r.exc = "ValueError" THEN ReturnNone ELSE r

\* validate_integer: ValueError becomes None; a negative value is only logged
validate_integer(value) ==
    LET r == PyInt(value)
    IN  IF r.exc = "ValueError" THEN ReturnNone ELSE r

\* the (is_valid, error_msg, parsed_row) triple; error_msg is the fixed part of
\* the message, without the interpolated values; parsed_row None is <<>>
Rejected(msg) == [is_valid |-> FALSE, error_msg |-> msg, parsed_row |-> <<>>]
Accepted(t) == [is_valid |-> TRUE, error_msg |-> "", parsed_row |-> t]

\* the OHLC checks with the second one moved to the front
ohlc_relationships_reordered(high, low, open_price, close) ==
    IF FLt(high, open_price) \/ FLt(high, close)
    THEN "High price is less than open or close"
    ELSE IF FLt(high, low) THEN "High price is less than low price"
    ELSE IF FGt(low, open_price) \/ FGt(low, close)
         THEN "Low price is greater than open or close"
    ELSE ""

\* the OHLC relationship checks: the message of the first that fails, "" if none
ohlc_relationships(high, low, open_price, close) ==
    IF FLt(high, low) THEN "High price is less than low price"
    ELSE IF FLt(high, open_price) \/ FLt(high, close)
         THEN "High price is less than open or close"
    ELSE IF FGt(low, open_price) \/ FGt(low, close)
         THEN "Low price is greater than open or close"
    ELSE ""

\* the body of validate_row's try block
validate_row_try(r) ==
    LET dt == validate_datetime(r["datetime"])
        close == validate_numeric(r["close"])
        high == validate_numeric(r["high"])
        low == validate_numeric(r["low"])
        open_price == validate_numeric(r["open"])
        volume == validate_integer(r["volume"])
        instrument == strip(r["instrument"])
    IN  IF dt.exc # "" THEN Raise(dt.exc)
        ELSE IF dt.none THEN Return(Rejected("Invalid datetime format"))
        ELSE IF close.exc # "" THEN Raise(close.exc)
        ELSE IF close.none THEN Return(Rejected("Invalid close price"))
        ELSE IF high.exc # "" THEN Raise(high.exc)
        ELSE IF high.none THEN Return(Rejected("Invalid high price"))
        ELSE IF low.exc # "" THEN Raise(low.exc)
        ELSE IF low.none THEN Return(Rejected("Invalid low price"))
        ELSE IF open_price.exc # "" THEN Raise(open_price.exc)
        ELSE IF open_price.none THEN Return(Rejected("Invalid open price"))
        ELSE IF volume.exc # "" THEN Raise(volume.exc)
        ELSE IF volume.none THEN Return(Rejected("Invalid volume"))
        ELSE IF instrument.exc # "" THEN Raise(instrument.exc)
        ELSE IF instrument.val = "" THEN Return(Rejected("Empty instrument name"))
        ELSE IF ohlc_relationships(high.val, low.val, open_price.val, close.val) # ""
             THEN Return(Rejected(ohlc_relationships(high.val, low.val, open_price.val, close.val)))
        ELSE Return(Accepted(<<dt.val, close.val, high.val, low.val, open_price.val,
                               volume.val, instrument.val>>))

\* validate_row without its except clause
validate_row_uncaught(r) == validate_row_try(r)

\* validate_row consulting what the CSVParser already holds: a row whose tuple
\* is in parsed_data is rejected as a duplicate
validate_row_stateful(r) ==
    LET body == validate_row_uncaught(r)
    IN  IF body.exc # "" THEN Return(Rejected("Unexpected error"))
        ELSE IF body.val.is_valid
                /\ \E k \in 1..Len(parsed_data) : parsed_data[k] = body.val.parsed_row
             THEN Return(Rejected("Duplicate row"))
        ELSE body

\* validate_row: whatever the try block raises is returned as a rejection
validate_row(r) ==
    LET body == validate_row_try(r)
    IN  IF body.exc # "" THEN Return(Rejected("Unexpected error")) ELSE body

---------------------------------------------------------------------------
(* One validate_row call on one row read by csv.DictReader *)

NoResult == [raised |-> FALSE, is_valid |-> FALSE, error_msg |-> "", parsed_row |-> <<>>]

\* what the caller of validate_row observes
Observed(call) ==
    IF call.exc # ""
    THEN [raised |-> TRUE, is_valid |-> FALSE, error_msg |-> call.exc, parsed_row |-> <<>>]
    ELSE [raised |-> FALSE, is_valid |-> call.val.is_valid,
          error_msg |-> call.val.error_msg, parsed_row |-> call.val.parsed_row]

NoResponse ==
    [op |-> "", status |-> 0, returned |-> "", count |-> 0, data_len |-> 0,
     inserts |-> 0, committed |-> 0, connected |-> FALSE, closed |-> FALSE]

\* no request made on the table
NoRequest == [body |-> <<>>, file |-> <<>>, env |-> <<>>]

StoreIdle == store = <<>> /\ request = NoRequest /\ response = NoResponse /\ ops = 0

\* no GET /strategy/performance request made: the parameters are the defaults
NoQuery ==
    [rows |-> <<>>, short_window |-> 5, long_window |-> 20,
     connect |-> TRUE, execute_ok |-> TRUE]
NoSummary == <<>>
SignalIdle == query = NoQuery /\ strategy_df = <<>> /\ summary = NoSummary

\* no DataVerifier at work: an empty table behind a database that answers
NoVerifier == [table |-> <<>>, connect |-> TRUE, fail_at |-> 0]
NoVerification == <<>>
VerifyIdle == verifier = NoVerifier /\ verification = NoVerification

ParserFresh ==
    /\ fs = [exists |-> FALSE, header |-> <<>>, lines |-> <<>>, fault |-> 0]
    /\ parsed_data = <<>>
    /\ invalid_rows = <<>>
    /\ statistics = <<>>
    /\ ret = ""
    /\ calls = 0

RowInit ==
    \* a line of 1 to 7 cells, each cell from the texts of its column
    /\ \E d \in ColumnTexts(1), c \in ColumnTexts(2), h \in ColumnTexts(3),
          l \in ColumnTexts(4), o \in ColumnTexts(5), v \in ColumnTexts(6),
          i \in ColumnTexts(7), n \in 1..7 :
            row = DictRow(SubSeq(<<d, c, h, l, o, v, i>>, 1, n))
    /\ result = NoResult
    /\ row_pc = "input"
    /\ ParserFresh
    /\ StoreIdle
    /\ SignalIdle
    /\ VerifyIdle

ValidateRow ==
    /\ row_pc = "input"
    /\ result' = Observed(validate_row(row))
    /\ row_pc' = "validated"
    /\ UNCHANGED <<row, parserVars, storeVars, signalVars, verifyVars>>

RowNext == ValidateRow

SpecRow == RowInit /\ [][RowNext]_vars

---------------------------------------------------------------------------
(* CSVParser.parse_csv over one file *)

\* the lines of the files parse_csv is run on; <<>> is a blank line
LineBlank == <<>>
LineValidA == <<"2024-01-16 10:00:00", "2", "2", "1", "1", "1", "HINDALCO">>
LineValidB == <<"2024-1-15 9:30:00", "1", "2", "1", "2", "0", " TCS ">>
LineBadDate == <<"2024-01-15T09:30:00", "1", "1", "1", "1", "1", "HINDALCO">>
LineShort == <<"2024-01-15 09:30:00", "1">>
LineInverted == <<"2024-01-15 09:30:00", "1", "1", "2", "1", "1", "HINDALCO">>
LineNegVolume == <<"2024-01-15 09:30:00", "1", "1", "1", "1", "-1", "HINDALCO">>
LineNaN == <<"2024-01-15 09:30:00", "nan", "1", "1", "1", "1", "HINDALCO">>
LineNoInstrument == <<"2024-01-15 09:30:00", "1", "1", "1", "1", "1", "   ">>

FileLines ==
    { LineBlank, LineValidA, LineValidB, LineBadDate, LineShort, LineInverted,
      LineNegVolume, LineNaN, LineNoInstrument }

RECURSIVE SeqsUpTo(_, _)
SeqsUpTo(S, n) ==
    IF n = 0 THEN {<<>>}
    ELSE SeqsUpTo(S, n - 1) \cup
         {Append(q, x) : q \in {p \in SeqsUpTo(S, n - 1) : Len(p) = n - 1}, x \in S}

\* headers that are not expected_columns: the column order of import_local_data.py,
\* a header without the instrument column, and no header at all (an empty file,
\* csv_reader.fieldnames is None)
BadHeaders_LocalOrder ==
    <<"datetime", "open", "high", "low", "close", "volume", "instrument">>

BadHeaders ==
    { BadHeaders_LocalOrder,
      <<"datetime", "close", "high", "low", "open", "volume">>,
      <<>> }

\* fault: -1 when open() or reading the header raises, k >= 1 when the reader
\* raises on reaching line k (csv.Error, UnicodeDecodeError), 0 when nothing raises
NoFile == [exists |-> FALSE, header |-> <<>>, lines |-> <<>>, fault |-> 0]

Files ==
    {NoFile}
    \cup {[exists |-> TRUE, header |-> h, lines |-> <<>>, fault |-> 0] : h \in BadHeaders}
    \cup {[exists |-> TRUE, header |-> h, lines |-> <<LineValidA>>, fault |-> 0] : h \in BadHeaders}
    \cup {[exists |-> TRUE, header |-> expected_columns, lines |-> <<LineValidA>>, fault |-> -1]}
    \cup UNION {{[exists |-> TRUE, header |-> expected_columns, lines |-> l, fault |-> k]
                    : k \in 0..Len(l)} : l \in SeqsUpTo(FileLines, MaxLines)}

\* validate_file_exists
validate_file_exists(f) == f.exists

\* validate_header
validate_header(header) == header = expected_columns

\* enumerate(csv_reader) without start=2, counting from the first data row
first_row_number_from_one == 1

\* enumerate(csv_reader, start=2)
first_row_number == 2

\* the body of the for loop with the else branch lost: an accepted tuple is
\* recorded in both lists
record_row_no_else(acc, row_number, res) ==
    LET a == IF res.is_valid /\ Len(res.parsed_row) > 0
             THEN [acc EXCEPT !.parsed_data = Append(@, res.parsed_row)]
             ELSE acc
    IN  [a EXCEPT !.invalid_rows = Append(@, <<row_number, res.error_msg>>)]

\* the body of the for loop: the accepted tuple is appended to parsed_data,
\* anything else is appended to invalid_rows with its row number
record_row(acc, row_number, res) ==
    IF res.is_valid /\ Len(res.parsed_row) > 0
    THEN [acc EXCEPT !.parsed_data = Append(@, res.parsed_row)]
    ELSE [acc EXCEPT !.invalid_rows = Append(@, <<row_number, res.error_msg>>)]

\* one turn of the for loop on the outcome of its validate_row call: an
\* exception leaves the loop, a returned triple is recorded
loop_turn(acc, row_number, call) ==
    IF call.exc # "" THEN [acc EXCEPT !.exc = call.exc]
    ELSE record_row(acc, row_number, call.val)

\* the for loop from line i on: csv.DictReader skips blank lines without
\* yielding a row; acc.exc is the exception that ended the loop, "" if none
RECURSIVE parse_rows(_, _, _, _)
parse_rows(f, i, row_number, acc) ==
    IF i > Len(f.lines) \/ acc.exc # "" THEN acc
    ELSE IF f.fault = i THEN [acc EXCEPT !.exc = "Error"]
    ELSE IF f.lines[i] = <<>> THEN parse_rows(f, i + 1, row_number, acc)
    ELSE parse_rows(f, i + 1, row_number + 1,
                    loop_turn(acc, row_number, validate_row(DictRow(f.lines[i]))))

\* min() and max() of a non-empty list, as Python computes them: the first item,
\* replaced by each later item that compares less (greater)
DtLt(a, b) ==
    \E k \in 1..6 : a[k] < b[k] /\ \A j \in 1..(k - 1) : a[j] = b[j]

\* x < y for two values of one column: datetimes, floats or ints
PyLess(kind, x, y) ==
    CASE kind = "datetime" -> DtLt(x, y)
      [] kind = "float" -> FLt(x, y)
      [] OTHER -> x < y

RECURSIVE PyFold(_, _, _, _, _)
PyFold(kind, wanted, s, i, best) ==
    IF i > Len(s) THEN best
    ELSE LET better == IF wanted = "min" THEN PyLess(kind, s[i], best)
                       ELSE PyLess(kind, best, s[i])
         IN  PyFold(kind, wanted, s, i + 1, IF better THEN s[i] ELSE best)

PyMin(kind, s) == PyFold(kind, "min", s, 2, s[1])
PyMax(kind, s) == PyFold(kind, "max", s, 2, s[1])

Column(data, c) == [k \in 1..Len(data) |-> data[k][c]]
Range(s) == {s[k] : k \in 1..Len(s)}

\* generate_statistics: nothing changes when parsed_data is empty
generate_statistics(old, data, invalid) ==
    IF Len(data) = 0 THEN old
    ELSE LET dates == Column(data, 1)
             prices == Column(data, 2)
             volumes == Column(data, 6)
             instruments == Column(data, 7)
         IN  [ total_rows |-> Len(data),
               invalid_rows |-> Len(invalid),
               date_range |-> <<PyMin("datetime", dates), PyMax("datetime", dates)>>,
               price_range |-> <<PyMin("float", prices), PyMax("float", prices)>>,
               volume_range |-> <<PyMin("int", volumes), PyMax("int", volumes)>>,
               unique_instruments |-> Cardinality(Range(instruments)),
               instruments |-> Range(instruments),
               unique_dates |-> Cardinality({<<d[1], d[2], d[3]>> : d \in Range(dates)}) ]

\* parse_csv: the state of the CSVParser and the value returned
parse_csv(f, self) ==
    IF ~validate_file_exists(f) THEN [self EXCEPT !.ret = "False"]
    ELSE IF f.fault = -1 THEN [self EXCEPT !.ret = "False"]
    ELSE IF ~validate_header(f.header) THEN [self EXCEPT !.ret = "False"]
    ELSE LET after == parse_rows(f, 1, first_row_number,
                                 [parsed_data |-> self.parsed_data,
                                  invalid_rows |-> self.invalid_rows, exc |-> ""])
         IN  IF after.exc # ""
             THEN [parsed_data |-> after.parsed_data, invalid_rows |-> after.invalid_rows,
                   statistics |-> self.statistics, ret |-> "False"]
             ELSE [parsed_data |-> after.parsed_data, invalid_rows |-> after.invalid_rows,
                   statistics |-> generate_statistics(self.statistics, after.parsed_data,
                                                      after.invalid_rows),
                   ret |-> "True"]

RowIdle ==
    /\ row = DictRow(LineValidA)
    /\ result = NoResult
    /\ row_pc = "input"

ParseInit ==
    /\ fs \in Files
    /\ parsed_data = <<>>
    /\ invalid_rows = <<>>
    /\ statistics = <<>>
    /\ ret = ""
    /\ calls = 0
    /\ RowIdle
    /\ StoreIdle
    /\ SignalIdle
    /\ VerifyIdle

ParseCsv ==
    /\ calls < MaxCalls
    /\ LET after == parse_csv(fs, [parsed_data |-> parsed_data, invalid_rows |-> invalid_rows,
                                    statistics |-> statistics, ret |-> ret])
       IN  /\ parsed_data' = after.parsed_data
           /\ invalid_rows' = after.invalid_rows
           /\ statistics' = after.statistics
           /\ ret' = after.ret
    /\ calls' = calls + 1
    /\ UNCHANGED <<fs, rowVars, storeVars, signalVars, verifyVars>>

ParseNext == ParseCsv

SpecParse == ParseInit /\ [][ParseNext]_vars

---------------------------------------------------------------------------
(* validate_row and parse_csv calls on one CSVParser, in any order *)

\* the rows handed to validate_row and the files parse_csv reads
CallRows == {DictRow(l) : l \in FileLines \ {LineBlank}}

CallLines == {LineValidA, LineValidB, LineBadDate, LineShort, LineNegVolume}

CallFiles ==
    {NoFile}
    \cup {[exists |-> TRUE, header |-> expected_columns, lines |-> l, fault |-> 0]
            : l \in SeqsUpTo(CallLines, 2)}

CallsInit ==
    /\ row \in CallRows
    /\ result = NoResult
    /\ row_pc = "input"
    /\ fs \in CallFiles
    /\ parsed_data = <<>>
    /\ invalid_rows = <<>>
    /\ statistics = <<>>
    /\ ret = ""
    /\ calls = 0
    /\ StoreIdle
    /\ SignalIdle
    /\ VerifyIdle

\* validate_row called once more on the row it was called on before
ValidateRowAgain ==
    /\ row_pc = "validated"
    /\ result' = Observed(validate_row(row))
    /\ row_pc' = "revalidated"
    /\ UNCHANGED <<row, parserVars, storeVars, signalVars, verifyVars>>

CallsNext == ValidateRow \/ ValidateRowAgain \/ ParseCsv

SpecCalls == CallsInit /\ [][CallsNext]_vars

---------------------------------------------------------------------------
(* The stock_data table *)

StoreRow(dt, open_price, high, low, close, volume, instrument) ==
    [datetime |-> dt, open |-> open_price, high |-> high, low |-> low,
     close |-> close, volume |-> volume, instrument |-> instrument]

\* PostgreSQL reading the timestamp column from the text add_data hands it
pg_timestamp(s) ==
    CASE s = "2024-01-15T09:30:00" -> Return(<<2024, 1, 15, 9, 30, 0>>)
      [] s = "2024-01-15 09:30:00" -> Return(<<2024, 1, 15, 9, 30, 0>>)
      [] s = "2024-01-16 10:00:00" -> Return(<<2024, 1, 16, 10, 0, 0>>)
      [] OTHER -> Raise("DataError")

---------------------------------------------------------------------------
(* POST /data *)

\* a JSON body: each member is absent (None) or given by the text of its value
Body(date, open_price, high, low, close, volume, instrument) ==
    [date |-> date, open |-> open_price, high |-> high, low |-> low,
     close |-> close, volume |-> volume, instrument |-> instrument]

BodyValid ==
    Body(Str("2024-01-15T09:30:00"), Str("1"), Str("2"), Str("1"), Str("2"), Str("1"),
         Str("HINDALCO"))
BodyValidTcs == [BodyValid EXCEPT !.instrument = Str("TCS")]
BodyInvalidType == [BodyValid EXCEPT !.open = Str("invalid")]
BodyMissingFields ==
    Body(Str("2024-01-15T09:30:00"), Str("1"), None, None, None, None, None)
BodyNegativeVolume == [BodyValid EXCEPT !.volume = Str("-1")]
BodyInverted == [BodyValid EXCEPT !.high = Str("1"), !.low = Str("2")]
BodyEmptyInstrument == [BodyValid EXCEPT !.instrument = Str("")]
BodyDefaultInstrument == [BodyValid EXCEPT !.instrument = None]
BodyBadDate == [BodyValid EXCEPT !.date = Str("")]

Bodies ==
    { BodyValid, BodyValidTcs, BodyInvalidType, BodyMissingFields, BodyNegativeVolume, BodyInverted,
      BodyEmptyInstrument, BodyDefaultInstrument, BodyBadDate }
    \cup {[BodyValid EXCEPT !.volume = Str(ToString(v))] : v \in VolumeValues}

\* StockData: every field is required; volume_must_be_non_negative refuses a
\* negative volume
StockData(data) ==
    LET open_price == PyFloat(data.open)
        high == PyFloat(data.high)
        low == PyFloat(data.low)
        close == PyFloat(data.close)
        volume == PyInt(data.volume)
    IN  IF \/ data.datetime.none \/ data.instrument.none
           \/ open_price.exc # "" \/ high.exc # "" \/ low.exc # "" \/ close.exc # ""
           \/ volume.exc # ""
        THEN Raise("ValidationError")
        ELSE IF volume.val < 0 THEN Raise("ValidationError")
        ELSE Return([datetime |-> data.datetime.s, open |-> open_price.val,
                     high |-> high.val, low |-> low.val, close |-> close.val,
                     volume |-> volume.val, instrument |-> data.instrument.s])

\* StockDataCreate without its validator: any integer volume passes
StockDataCreate_any_volume(body) ==
    LET open_price == PyFloat(body.open)
        high == PyFloat(body.high)
        low == PyFloat(body.low)
        close == PyFloat(body.close)
        volume == PyInt(body.volume)
    IN  IF \/ body.date.none
           \/ open_price.exc # "" \/ high.exc # "" \/ low.exc # "" \/ close.exc # ""
           \/ volume.exc # ""
        THEN Raise("ValidationError")
        ELSE Return([datetime |-> body.date.s, open |-> open_price.val, high |-> high.val,
                     low |-> low.val, close |-> close.val, volume |-> volume.val,
                     instrument |-> IF body.instrument.none THEN "HINDALCO"
                                    ELSE body.instrument.s])

\* StockDataCreate: date is a required str, the prices are floats, volume is an
\* int that volume_must_be_non_negative refuses when negative, instrument
\* defaults to "HINDALCO"
StockDataCreate(body) ==
    LET open_price == PyFloat(body.open)
        high == PyFloat(body.high)
        low == PyFloat(body.low)
        close == PyFloat(body.close)
        volume == PyInt(body.volume)
    IN  IF \/ body.date.none
           \/ open_price.exc # "" \/ high.exc # "" \/ low.exc # "" \/ close.exc # ""
           \/ volume.exc # ""
        THEN Raise("ValidationError")
        ELSE IF volume.val < 0 THEN Raise("ValidationError")
        ELSE Return([datetime |-> body.date.s, open |-> open_price.val, high |-> high.val,
                     low |-> low.val, close |-> close.val, volume |-> volume.val,
                     instrument |-> IF body.instrument.none THEN "HINDALCO"
                                    ELSE body.instrument.s])

\* add_data behind FastAPI: the get_db_connection dependency is resolved first
\* (500 when it fails), an invalid body is answered 422 without calling add_data,
\* and add_data answers 500 after a rollback when the INSERT raises.
\* env.connect: the connection is made; env.execute_ok: the INSERT is not refused
\* for a reason of the server's own
add_data(body, env, table) ==
    LET stock == StockDataCreate(body)
        dt == pg_timestamp(stock.val.datetime)
    IN  IF ~env.connect
        THEN [store |-> table,
              response |-> [NoResponse EXCEPT !.op = "add_data", !.status = 500]]
        ELSE IF stock.exc # ""
        THEN [store |-> table,
              response |-> [NoResponse EXCEPT !.op = "add_data", !.status = 422,
                                              !.connected = TRUE]]
        ELSE IF dt.exc # "" \/ ~env.execute_ok
        THEN [store |-> table,
              response |-> [NoResponse EXCEPT !.op = "add_data", !.status = 500,
                                              !.connected = TRUE, !.inserts = 1,
                                              !.closed = TRUE]]
        ELSE [store |-> Append(table, StoreRow(dt.val, stock.val.open, stock.val.high,
                                                 stock.val.low, stock.val.close,
                                                 stock.val.volume, stock.val.instrument)),
              response |-> [NoResponse EXCEPT !.op = "add_data", !.status = 200,
                                              !.connected = TRUE, !.inserts = 1,
                                              !.committed = 1, !.closed = TRUE]]

---------------------------------------------------------------------------
(* StockDataImporter *)

\* validate_csv_structure
validate_csv_structure(header) == header = expected_columns

\* the exception of the first call that raised, "" if none did
RECURSIVE FirstExc(_)
FirstExc(callseq) ==
    IF callseq = <<>> THEN ""
    ELSE IF Head(callseq).exc # "" THEN Head(callseq).exc
    ELSE FirstExc(Tail(callseq))

\* validate_row_data: the conversions only have to succeed and the instrument to
\* be non-empty after strip(); ValueError and any other exception are rejections
validate_row_data(r) ==
    LET exc == FirstExc(<<strptime(r["datetime"]), PyFloat(r["close"]), PyFloat(r["high"]),
                          PyFloat(r["low"]), PyFloat(r["open"]), PyInt(r["volume"]),
                          strip(r["instrument"])>>)
    IN  IF exc = "ValueError" THEN [is_valid |-> FALSE, error_msg |-> "Data validation error"]
        ELSE IF exc # "" THEN [is_valid |-> FALSE, error_msg |-> "Unexpected error"]
        ELSE IF strip(r["instrument"]).val = ""
             THEN [is_valid |-> FALSE, error_msg |-> "Empty instrument name"]
        ELSE [is_valid |-> TRUE, error_msg |-> ""]

\* the tuple parse_csv_data builds from a row validate_row_data accepted
importer_parsed_row(r) ==
    <<strptime(r["datetime"]).val, PyFloat(r["close"]).val, PyFloat(r["high"]).val,
      PyFloat(r["low"]).val, PyFloat(r["open"]).val, PyInt(r["volume"]).val,
      strip(r["instrument"]).val>>

\* the for loop of parse_csv_data from line i on
RECURSIVE importer_rows(_, _, _)
importer_rows(f, i, acc) ==
    IF i > Len(f.lines) THEN acc
    ELSE IF f.fault = i THEN [acc EXCEPT !.exc = "Error"]
    ELSE IF f.lines[i] = <<>> THEN importer_rows(f, i + 1, acc)
    ELSE LET r == DictRow(f.lines[i])
         IN  IF validate_row_data(r).is_valid
             THEN importer_rows(f, i + 1,
                                [acc EXCEPT !.data = Append(@, importer_parsed_row(r))])
             ELSE importer_rows(f, i + 1, acc)

\* parse_csv_data: the list of parsed tuples; [] when the file cannot be opened,
\* the header is not the expected one, or reading raises at any line
parse_csv_data(f) ==
    IF ~f.exists \/ f.fault = -1 THEN <<>>
    ELSE IF ~validate_csv_structure(f.header) THEN <<>>
    ELSE LET r == importer_rows(f, 1, [data |-> <<>>, exc |-> ""])
         IN  IF r.exc # "" THEN <<>> ELSE r.data

\* the row the INSERT of insert_data_batch stores for a parsed tuple
importer_store_row(t) == StoreRow(t[1], t[5], t[3], t[4], t[2], t[6], t[7])

Min(a, b) == IF a < b THEN a ELSE b

\* the batch loop of insert_data_batch from index i on; fail_batch is the number
\* of the batch whose executemany raises, 0 if none does
RECURSIVE insert_batches(_, _, _, _)
insert_batches(data, i, fail_batch, acc) ==
    IF i > Len(data) THEN [acc EXCEPT !.count = acc.total_inserted]
    ELSE LET batch == SubSeq(data, i, Min(i + BatchSize - 1, Len(data)))
             number == ((i - 1) \div BatchSize) + 1
         IN  IF number = fail_batch
             THEN [acc EXCEPT !.count = 0, !.inserts = @ + 1]
             ELSE insert_batches(data, i + BatchSize, fail_batch,
                    [acc EXCEPT !.committed = @ \o [k \in 1..Len(batch) |->
                                                        importer_store_row(batch[k])],
                                !.total_inserted = @ + Len(batch),
                                !.inserts = @ + 1])

\* insert_data_batch: the count returned, the rows committed, the executemany calls made
insert_data_batch(data, fail_batch) ==
    IF Len(data) = 0 THEN [count |-> 0, committed |-> <<>>, total_inserted |-> 0, inserts |-> 0]
    ELSE insert_batches(data, 1, fail_batch,
                        [count |-> 0, committed |-> <<>>, total_inserted |-> 0, inserts |-> 0])

\* str.lower() on the answers typed at the prompt
lower(s) == IF s = "Y" THEN "y" ELSE s

\* check_existing_data: the number of rows of the table, or 0 when the
\* SELECT COUNT(*) raises (env.count_ok is FALSE)
check_existing_data(env, table) == IF env.count_ok THEN Len(table) ELSE 0

\* StockDataImporter.run_import.  env.connect: connect_to_database succeeds;
\* env.answer: what the user types when prompted; env.fail_batch as above.
\* After a SELECT COUNT(*) that raised, the transaction is aborted (nothing
\* rolls it back) and the first executemany raises in its turn
importer_run_import(f, env, table) ==
    LET done(returned, connected, data_len, ins) ==
            [store |-> table \o ins.committed,
             response |-> [NoResponse EXCEPT !.op = "run_import", !.returned = returned,
                                             !.connected = connected, !.closed = connected,
                                             !.data_len = data_len, !.count = ins.count,
                                             !.inserts = ins.inserts,
                                             !.committed = Len(ins.committed)]]
        nothing == [count |-> 0, committed |-> <<>>, total_inserted |-> 0, inserts |-> 0]
        parsed == parse_csv_data(f)
        ins == insert_data_batch(parsed, IF env.count_ok THEN env.fail_batch ELSE 1)
    IN  IF ~f.exists THEN done("False", FALSE, 0, nothing)
        ELSE IF ~env.connect THEN done("False", FALSE, 0, nothing)
        ELSE IF check_existing_data(env, table) > 0 /\ lower(env.answer) # "y"
        THEN done("False", TRUE, 0, nothing)
        ELSE IF Len(parsed) = 0 THEN done("False", TRUE, 0, nothing)
        ELSE IF ins.count = 0 THEN done("False", TRUE, Len(parsed), ins)
        ELSE done("True", TRUE, Len(parsed), ins)

---------------------------------------------------------------------------
(* LocalDataImporter *)

\* pandas.read_csv: a DataFrame with the header's columns; blank lines are
\* skipped; a cell that is missing, empty or "nan" is NaN (none).  None when
\* the file is missing, empty or unreadable
PdCell(cells, i) ==
    IF i > Len(cells) \/ cells[i] \in {"", "nan"} THEN None ELSE Str(cells[i])

load_csv_data(f) ==
    IF ~f.exists \/ f.fault # 0 \/ f.header = <<>> THEN ReturnNone
    ELSE LET lines == SelectSeq(f.lines, LAMBDA l : l # <<>>)
         IN  Return([columns |-> f.header,
                     rows |-> [k \in 1..Len(lines) |->
                                 [c \in Range(f.header) |->
                                     PdCell(lines[k], CHOOSE i \in 1..Len(f.header) :
                                                         f.header[i] = c)]]])

\* pd.to_datetime on the texts of the files used here (one format throughout);
\* NaN becomes NaT
pd_to_datetime(x) ==
    IF x.none THEN ReturnNone
    ELSE CASE x.s = "2024-01-15 09:30:00" -> Return(<<2024, 1, 15, 9, 30, 0>>)
           [] x.s = "2024-01-16 10:00:00" -> Return(<<2024, 1, 16, 10, 0, 0>>)
           [] OTHER -> Raise("ValueError")

\* pd.to_numeric(errors='coerce'): text that is no number becomes NaN
pd_to_numeric(x) ==
    IF x.none THEN ReturnNone
    ELSE IF PyFloat(x).exc # "" \/ PyFloat(x).val.nan THEN ReturnNone
    ELSE Return(PyFloat(x).val)

required_columns == {"datetime", "open", "high", "low", "close", "volume"}
numeric_columns == {"open", "high", "low", "close", "volume"}

\* clean_data: None when a required column is missing or a datetime does not
\* convert; otherwise the rows without any missing value, in file order, with
\* instrument 'HINDALCO' when the file has no such column
clean_data(df) ==
    LET converted(r) ==
            [c \in DOMAIN r |->
                IF c = "datetime" THEN pd_to_datetime(r[c])
                ELSE IF c \in numeric_columns THEN pd_to_numeric(r[c])
                ELSE IF r[c].none THEN ReturnNone ELSE Return(r[c].s)]
        conv == [k \in 1..Len(df.rows) |-> converted(df.rows[k])]
        kept == SelectSeq(conv, LAMBDA r : \A c \in DOMAIN r : ~r[c].none)
    IN  IF ~(required_columns \subseteq Range(df.columns)) THEN ReturnNone
        ELSE IF \E k \in 1..Len(conv) : conv[k]["datetime"].exc # "" THEN ReturnNone
        ELSE Return([k \in 1..Len(kept) |->
                        [datetime |-> kept[k]["datetime"].val,
                         open |-> kept[k]["open"].val, high |-> kept[k]["high"].val,
                         low |-> kept[k]["low"].val, close |-> kept[k]["close"].val,
                         volume |-> kept[k]["volume"].val,
                         instrument |-> IF "instrument" \in DOMAIN kept[k]
                                        THEN kept[k]["instrument"].val ELSE "HINDALCO"]])

\* the row loop of insert_data from row i on: acc.pending is what has been
\* inserted and not yet committed; fail_row is the row whose INSERT raises
RECURSIVE insert_rows(_, _, _, _)
insert_rows(df, i, fail_row, acc) ==
    IF i > Len(df) THEN acc
    ELSE IF i = fail_row
    THEN insert_rows(df, i + 1, fail_row, [acc EXCEPT !.pending = <<>>, !.inserts = @ + 1])
    ELSE LET r == StoreRow(df[i].datetime, df[i].open, df[i].high, df[i].low,
                           df[i].close, df[i].volume.v, df[i].instrument)
             n == acc.inserted_count + 1
         IN  insert_rows(df, i + 1, fail_row,
                IF n % CommitEvery = 0
                THEN [acc EXCEPT !.inserted_count = n, !.inserts = @ + 1,
                                 !.committed = @ \o Append(acc.pending, r),
                                 !.pending = <<>>]
                ELSE [acc EXCEPT !.inserted_count = n, !.inserts = @ + 1,
                                 !.pending = Append(@, r)])

\* insert_data: the existing HINDALCO rows are deleted and that is committed,
\* the rows are inserted one by one, and what is pending at the end is committed
insert_data(df, env, table) ==
    IF ~env.connect
    THEN [store |-> table, count |-> 0, inserts |-> 0, committed |-> 0]
    ELSE LET others == SelectSeq(table, LAMBDA r : r.instrument # "HINDALCO")
             after == insert_rows(df, 1, env.fail_row,
                                  [inserted_count |-> 0, inserts |-> 0,
                                   committed |-> <<>>, pending |-> <<>>])
         IN  [store |-> others \o after.committed \o after.pending,
              count |-> after.inserted_count, inserts |-> after.inserts,
              committed |-> Len(after.committed) + Len(after.pending)]

\* LocalDataImporter.run_import
local_run_import(f, env, table) ==
    LET loaded == load_csv_data(f)
        cleaned == clean_data(loaded.val)
        ins == insert_data(cleaned.val, env, table)
    IN  IF loaded.none
        THEN [store |-> table,
              response |-> [NoResponse EXCEPT !.op = "local_run_import", !.returned = "False"]]
        ELSE IF cleaned.none
        THEN [store |-> table,
              response |-> [NoResponse EXCEPT !.op = "local_run_import", !.returned = "False"]]
        ELSE [store |-> ins.store,
              response |-> [NoResponse EXCEPT !.op = "local_run_import", !.returned = "True",
                                              !.connected = env.connect, !.closed = env.connect,
                                              !.data_len = Len(cleaned.val), !.count = ins.count,
                                              !.inserts = ins.inserts,
                                              !.committed = ins.committed]]

---------------------------------------------------------------------------
(* Requests and import runs against one table *)

ImportLines == {LineValidA, LineBadDate, LineInverted}

ImportFiles ==
    {NoFile,
     [exists |-> TRUE, header |-> BadHeaders_LocalOrder, lines |-> <<LineValidA>>, fault |-> 0],
     [exists |-> TRUE, header |-> expected_columns, lines |-> <<LineValidA>>, fault |-> -1],
     [exists |-> TRUE, header |-> expected_columns, lines |-> <<LineValidA, LineBlank>>,
      fault |-> 2],
     [exists |-> TRUE, header |-> expected_columns,
      lines |-> <<LineBlank, LineNegVolume, LineShort>>, fault |-> 0]}
    \cup {[exists |-> TRUE, header |-> expected_columns, lines |-> l, fault |-> 0]
            : l \in SeqsUpTo(ImportLines, MaxImportLines)}

ImportEnvs ==
    {[connect |-> FALSE, count_ok |-> TRUE, answer |-> "n", fail_batch |-> 0],
     [connect |-> TRUE, count_ok |-> TRUE, answer |-> "n", fail_batch |-> 0],
     [connect |-> TRUE, count_ok |-> TRUE, answer |-> "Y", fail_batch |-> 0],
     [connect |-> TRUE, count_ok |-> FALSE, answer |-> "n", fail_batch |-> 0]}
    \cup {[connect |-> TRUE, count_ok |-> TRUE, answer |-> "y", fail_batch |-> k]
            : k \in 0..2}

\* a line with its cells in the column order of import_local_data.py, and the
\* same without the instrument cell
LineLocalOrder == <<"2024-01-16 10:00:00", "1", "2", "1", "2", "1", " TCS ">>
LineLocalNoInstrument == <<"2024-01-16 10:00:00", "1", "2", "1", "2", "1">>

LocalLines == {LineValidA, LineNegVolume, LineNaN}

LocalFiles ==
    {NoFile,
     [exists |-> TRUE, header |-> BadHeaders_LocalOrder, lines |-> <<LineLocalOrder>>,
      fault |-> 0],
     [exists |-> TRUE, header |-> SubSeq(BadHeaders_LocalOrder, 1, 6),
      lines |-> <<LineLocalNoInstrument>>, fault |-> 0],
     [exists |-> TRUE, header |-> SubSeq(expected_columns, 1, 5),
      lines |-> <<SubSeq(LineValidA, 1, 5)>>, fault |-> 0],
     [exists |-> TRUE, header |-> expected_columns, lines |-> <<LineValidA>>, fault |-> 1],
     [exists |-> TRUE, header |-> expected_columns,
      lines |-> <<LineBlank, LineInverted, LineNoInstrument>>, fault |-> 0],
     [exists |-> TRUE, header |-> expected_columns, lines |-> <<LineShort>>, fault |-> 0]}
    \cup {[exists |-> TRUE, header |-> expected_columns, lines |-> l, fault |-> 0]
            : l \in SeqsUpTo(LocalLines, MaxImportLines)}

LocalEnvs ==
    {[connect |-> FALSE, fail_row |-> 0]}
    \cup {[connect |-> TRUE, fail_row |-> k] : k \in 0..MaxImportLines}

AddDataEnvs ==
    {[connect |-> FALSE, execute_ok |-> TRUE], [connect |-> TRUE, execute_ok |-> FALSE],
     [connect |-> TRUE, execute_ok |-> TRUE]}

\* the table before the run: empty, or holding rows that valid POST /data
\* requests stored earlier
StoredBy(body) == add_data(body, [connect |-> TRUE, execute_ok |-> TRUE], <<>>).store[1]

InitialTables ==
    { <<>>, <<StoredBy(BodyValid)>>, <<StoredBy(BodyValidTcs), StoredBy(BodyValid)>> }

StoreInit ==
    /\ store \in InitialTables
    /\ request = NoRequest
    /\ response = NoResponse
    /\ ops = 0
    /\ RowIdle
    /\ ParserFresh
    /\ SignalIdle
    /\ VerifyIdle

AddData ==
    /\ ops < MaxOps
    /\ \E body \in Bodies, env \in AddDataEnvs :
        \E after \in {add_data(body, env, store)} :
            /\ request' = [NoRequest EXCEPT !.body = body, !.env = env]
            /\ store' = after.store
            /\ response' = after.response
    /\ ops' = ops + 1
    /\ UNCHANGED <<rowVars, parserVars, signalVars, verifyVars>>

ImporterRunImport ==
    /\ ops < MaxOps
    /\ \E f \in ImportFiles, env \in ImportEnvs :
        \E after \in {importer_run_import(f, env, store)} :
            /\ request' = [NoRequest EXCEPT !.file = f, !.env = env]
            /\ store' = after.store
            /\ response' = after.response
    /\ ops' = ops + 1
    /\ UNCHANGED <<rowVars, parserVars, signalVars, verifyVars>>

LocalRunImport ==
    /\ ops < MaxOps
    /\ \E f \in LocalFiles, env \in LocalEnvs :
        \E after \in {local_run_import(f, env, store)} :
            /\ request' = [NoRequest EXCEPT !.file = f, !.env = env]
            /\ store' = after.store
            /\ response' = after.response
    /\ ops' = ops + 1
    /\ UNCHANGED <<rowVars, parserVars, signalVars, verifyVars>>

StoreNext == AddData \/ ImporterRunImport \/ LocalRunImport

SpecStore == StoreInit /\ [][StoreNext]_vars

---------------------------------------------------------------------------
(* GET /strategy/performance *)

\* The closes are whole numbers, for which the float sums of pandas are exact;
\* a float quotient n/d is kept exact, as a fraction in lowest terms with
\* d > 0.  Row i of the model (1-based) is row i - 1 of the DataFrame.
Abs(n) == IF n < 0 THEN -n ELSE n

RECURSIVE GCD(_, _)
GCD(a, b) == IF b = 0 THEN a ELSE GCD(b, a % b)

Frac(n, d) == [n |-> n \div GCD(Abs(n), d), d |-> d \div GCD(Abs(n), d)]
FracLt(a, b) == a.n * b.d < b.n * a.d
FracMul(a, b) == Frac(a.n * b.n, a.d * b.d)

\* Series.rolling(window, min_periods=1).mean() from row i on: the window's
\* sum is kept by adding the close that enters and removing the one that
\* leaves; the number of observations is i until the window is full
RECURSIVE rolling_from(_, _, _, _, _)
rolling_from(close, window, i, sum_x, acc) ==
    IF i > Len(close) THEN acc
    ELSE IF i > window
    THEN rolling_from(close, window, i + 1, sum_x + close[i] - close[i - window],
                      Append(acc, Frac(sum_x + close[i] - close[i - window], window)))
    ELSE rolling_from(close, window, i + 1, sum_x + close[i],
                      Append(acc, Frac(sum_x + close[i], i)))

\* rolling with min_periods=window: no mean until the window is full (the mean
\* of a row without one is given as 0)
rolling_mean_full_window(close, window) ==
    [i \in 1..Len(close) |->
        IF i < window THEN Frac(0, 1) ELSE rolling_from(close, window, 1, 0, <<>>)[i]]

rolling_mean(close, window) == rolling_from(close, window, 1, 0, <<>>)

\* signal with >= in place of >: equal averages give +1
signal_column_no_zero(short_ma, long_ma) ==
    [i \in 1..Len(short_ma) |-> IF FracLt(short_ma[i], long_ma[i]) THEN -1 ELSE 1]

\* df['signal'] = 0, then 1 where short_ma > long_ma, then -1 where short_ma < long_ma
signal_column(short_ma, long_ma) ==
    [i \in 1..Len(short_ma) |->
        IF FracLt(short_ma[i], long_ma[i]) THEN -1
        ELSE IF FracLt(long_ma[i], short_ma[i]) THEN 1
        ELSE 0]

\* Series.diff().fillna(0)
diff_fillna(signal) ==
    [i \in 1..Len(signal) |-> IF i = 1 THEN 0 ELSE signal[i] - signal[i - 1]]

\* Series.pct_change().fillna(0)
pct_change_fillna(close) ==
    [i \in 1..Len(close) |->
        IF i = 1 THEN Frac(0, 1) ELSE Frac(close[i] - close[i - 1], close[i - 1])]

\* the signal column used without the shift: the return of a step is
\* multiplied by the signal of the same step
shift_fillna_no_shift(signal) == signal

\* Series.shift(1).fillna(0)
shift_fillna(signal) ==
    [i \in 1..Len(signal) |-> IF i = 1 THEN 0 ELSE signal[i - 1]]

\* df['returns'] * df['signal'].shift(1).fillna(0)
strategy_returns_column(returns, signal) ==
    [i \in 1..Len(returns) |-> Frac(returns[i].n * shift_fillna(signal)[i], returns[i].d)]

\* (df['strategy_returns'] + 1).prod() over the rows from i on
RECURSIVE prod_plus_one(_, _)
prod_plus_one(strategy_returns, i) ==
    IF i > Len(strategy_returns) THEN Frac(1, 1)
    ELSE FracMul(Frac(strategy_returns[i].n + strategy_returns[i].d, strategy_returns[i].d),
                 prod_plus_one(strategy_returns, i + 1))

\* events at every rise (fall) of the signal, whatever its size
events_any_change(position, delta) ==
    SelectSeq([i \in 1..Len(position) |-> i],
              LAMBDA i : IF delta > 0 THEN position[i] > 0 ELSE position[i] < 0)

\* df[df['position'] == delta].index: the rows (standing for their dates)
\* whose position is delta
events(position, delta) ==
    SelectSeq([i \in 1..Len(position) |-> i], LAMBDA i : position[i] = delta)

\* the larger of the two counts
Max2(a, b) == IF a < b THEN b ELSE a

\* min(num_buys, num_sells), line 154
Min2(a, b) == IF a < b THEN a ELSE b

\* the columns of df after line 157
strategy_frame(close, short_window, long_window) ==
    LET short_ma == rolling_mean(close, short_window)
        long_ma == rolling_mean(close, long_window)
        signal == signal_column(short_ma, long_ma)
        returns == pct_change_fillna(close)
    IN  [close |-> close, short_ma |-> short_ma, long_ma |-> long_ma,
         signal |-> signal, position |-> diff_fillna(signal),
         returns |-> returns,
         strategy_returns |-> strategy_returns_column(returns, signal)]

\* the dict returned at lines 159-169
strategy_summary(frame, q) ==
    LET buy_signals == events(frame.position, 2)
        sell_signals == events(frame.position, -2)
        product == prod_plus_one(frame.strategy_returns, 1)
    IN  [status |-> 200,
         buy_signals |-> buy_signals, sell_signals |-> sell_signals,
         num_buys |-> Len(buy_signals), num_sells |-> Len(sell_signals),
         total_trades |-> Min2(Len(buy_signals), Len(sell_signals)),
         cumulative_return |-> Frac(product.n - product.d, product.d),
         short_window |-> q.short_window, long_window |-> q.long_window]

NoDataFound == [status |-> 200, message |-> "No data found for the given instrument."]
ConnectionFailed == [status |-> 500, detail |-> "Database connection failed"]
CalculationError == [status |-> 500, detail |-> "Strategy calculation error"]

\* get_strategy_performance with the empty-result test lost
get_strategy_performance_no_sentinel(q) ==
    IF ~q.connect THEN [df |-> <<>>, summary |-> ConnectionFailed]
    ELSE IF ~q.execute_ok \/ q.short_window < 1 \/ q.long_window < 1
    THEN [df |-> <<>>, summary |-> CalculationError]
    ELSE [df |-> strategy_frame(q.rows, q.short_window, q.long_window),
          summary |-> strategy_summary(strategy_frame(q.rows, q.short_window,
                                                      q.long_window), q)]

\* get_strategy_performance refusing windows that are not short < long
get_strategy_performance_ordered_windows(q) ==
    IF ~q.connect THEN [df |-> <<>>, summary |-> ConnectionFailed]
    ELSE IF ~q.execute_ok THEN [df |-> <<>>, summary |-> CalculationError]
    ELSE IF Len(q.rows) = 0 THEN [df |-> <<>>, summary |-> NoDataFound]
    ELSE IF q.short_window < 1 \/ q.long_window < 1 \/ q.short_window >= q.long_window
    THEN [df |-> <<>>, summary |-> CalculationError]
    ELSE [df |-> strategy_frame(q.rows, q.short_window, q.long_window),
          summary |-> strategy_summary(strategy_frame(q.rows, q.short_window,
                                                      q.long_window), q)]

\* get_strategy_performance behind FastAPI.  q.rows: the closes the query
\* returns, in datetime order; q.connect: get_db_connection succeeds;
\* q.execute_ok: the query does not raise.  rolling() raises ValueError for a
\* window below min_periods = 1, which the except turns into a 500
get_strategy_performance(q) ==
    IF ~q.connect THEN [df |-> <<>>, summary |-> ConnectionFailed]
    ELSE IF ~q.execute_ok THEN [df |-> <<>>, summary |-> CalculationError]
    ELSE IF Len(q.rows) = 0 THEN [df |-> <<>>, summary |-> NoDataFound]
    ELSE IF q.short_window < 1 \/ q.long_window < 1
    THEN [df |-> <<>>, summary |-> CalculationError]
    ELSE [df |-> strategy_frame(q.rows, q.short_window, q.long_window),
          summary |-> strategy_summary(strategy_frame(q.rows, q.short_window,
                                                      q.long_window), q)]

---------------------------------------------------------------------------
(* One GET /strategy/performance request *)

Query(rows, short_window, long_window) ==
    [rows |-> rows, short_window |-> short_window, long_window |-> long_window,
     connect |-> TRUE, execute_ok |-> TRUE]

\* the series of test_crossover_detection with its windows
StepUpSeries == [i \in 1..25 |-> IF i <= 10 THEN 100 ELSE 200]
StepUpQuery == Query(StepUpSeries, 5, 20)

\* closes that fall, rise, rest, fall and rise again; with windows 1 and 2
\* the signal is the sign of the last change of the close
ZigZagSeries == <<2, 1, 2, 2, 1, 2>>
ZigZagQuery == Query(ZigZagSeries, 1, 2)

SignalInit ==
    /\ \/ \E rows \in SeqsUpTo(1..MaxClose, MaxSeries),
             short_window \in 0..MaxWindow, long_window \in 0..MaxWindow :
                query = Query(rows, short_window, long_window)
       \/ query = StepUpQuery
       \/ query = ZigZagQuery
       \/ query = [NoQuery EXCEPT !.connect = FALSE]
       \/ query = [Query(<<1, 2>>, 1, 2) EXCEPT !.execute_ok = FALSE]
    /\ strategy_df = <<>>
    /\ summary = NoSummary
    /\ RowIdle
    /\ ParserFresh
    /\ StoreIdle
    /\ VerifyIdle

GetStrategyPerformance ==
    /\ summary = NoSummary
    /\ \E after \in {get_strategy_performance(query)} :
          /\ strategy_df' = after.df
          /\ summary' = after.summary
    /\ UNCHANGED <<query, rowVars, parserVars, storeVars, verifyVars>>

SignalNext == GetStrategyPerformance

SpecSignal == SignalInit /\ [][SignalNext]_vars

---------------------------------------------------------------------------
(* DataVerifier *)

\* A row of stock_data as the verifier's queries see it: datetime is a day
\* relative to CURRENT_TIMESTAMP (0), nulls the columns that are NULL
TableRow(datetime, instrument, open_price, high, low, close, volume, nulls) ==
    [datetime |-> datetime, instrument |-> instrument, open |-> open_price,
     high |-> high, low |-> low, close |-> close, volume |-> volume, nulls |-> nulls]

TableRows ==
    { TableRow(-2, "HINDALCO", 1, 2, 1, 2, 1, {}),
      TableRow(-1, "TCS", 1, 2, 1, 2, 1, {}),
      TableRow(-2, "HINDALCO", 1, 2, 1, 0, 1, {"close"}),     \* close IS NULL
      TableRow(-2, "HINDALCO", 1, 2, 1, 2, -1, {}),           \* negative volume
      TableRow(-1, "HINDALCO", 1, 1, 2, 1, 1, {}),            \* high < low
      TableRow(1, "HINDALCO", 1, 2, 1, 2, 1, {}),             \* a future date
      TableRow(-1, "HINDALCO", -1, -1, -1, -1, 1, {}) }       \* negative prices

\* the queries of generate_report in the order they are executed:
\* basic_statistics 1, check_null_values 2, check_duplicates 3,
\* check_data_ranges 4, check_data_consistency 5..8, check_data_completeness 9
NumQueries == 9

\* cursor.execute raises for query n.  v.fail_at is the first query the server
\* refuses (0: none); no check rolls back, so the transaction stays aborted
\* and every later query raises too
QueryFails(v, n) == v.fail_at # 0 /\ n >= v.fail_at

\* SQL comparisons: never true when a column is NULL
SqlLt(r, a, b) == a \notin r.nulls /\ b \notin r.nulls /\ r[a] < r[b]
SqlNegative(r, a) == a \notin r.nulls /\ r[a] < 0

\* the rows of the table, by position
RowsOf(table) == 1..Len(table)

Instruments(table) == {table[k].instrument : k \in 1..Len(table)}

\* basic_statistics: {} when the query raises
basic_statistics(v) ==
    IF QueryFails(v, 1) THEN <<>>
    ELSE [total_records |-> Len(v.table),
          unique_instruments |-> Cardinality(Instruments(v.table))]

\* check_null_values: the NULL count of each column, {} when the query raises
check_null_values(v) ==
    IF QueryFails(v, 2) THEN <<>>
    ELSE [c \in {"datetime", "close", "high", "low", "open", "volume", "instrument"} |->
            Cardinality({k \in RowsOf(v.table) : c \in v.table[k].nulls})]

\* check_duplicates: the (datetime, instrument) groups of more than one row,
\* [] when the query raises
check_duplicates(v) ==
    IF QueryFails(v, 3) THEN {}
    ELSE {g \in {<<v.table[k].datetime, v.table[k].instrument>> : k \in 1..Len(v.table)} :
            Cardinality({k \in RowsOf(v.table) :
                            <<v.table[k].datetime, v.table[k].instrument>> = g}) > 1}

\* check_data_ranges: per instrument, whether MIN(close) is a number (it is
\* NULL when every close of the instrument is); {} when the query raises
check_data_ranges(v) ==
    IF QueryFails(v, 4) THEN <<>>
    ELSE [i \in Instruments(v.table) |->
            [has_price_range |->
                \E k \in 1..Len(v.table) :
                    v.table[k].instrument = i /\ "close" \notin v.table[k].nulls,
             record_count |-> Cardinality({k \in RowsOf(v.table) : v.table[k].instrument = i})]]

\* check_data_consistency: the issue types found by its four queries, in
\* order; [] when one of them raises, whatever the earlier ones found
check_data_consistency(v) ==
    LET negative_prices ==
            Cardinality({k \in RowsOf(v.table) :
                            \E c \in {"close", "high", "low", "open"} :
                                SqlNegative(v.table[k], c)})
        negative_volumes ==
            Cardinality({k \in RowsOf(v.table) : SqlNegative(v.table[k], "volume")})
        invalid_ohlc ==
            Cardinality({k \in RowsOf(v.table) :
                            LET r == v.table[k]
                            IN  \/ SqlLt(r, "high", "low") \/ SqlLt(r, "high", "open")
                                \/ SqlLt(r, "high", "close") \/ SqlLt(r, "open", "low")
                                \/ SqlLt(r, "close", "low")})
        future_dates == Cardinality({k \in RowsOf(v.table) : v.table[k].datetime > 0})
    IN  IF \E n \in 5..8 : QueryFails(v, n) THEN <<>>
        ELSE (IF negative_prices > 0 THEN <<"negative_prices">> ELSE <<>>)
             \o (IF negative_volumes > 0 THEN <<"negative_volumes">> ELSE <<>>)
             \o (IF invalid_ohlc > 0 THEN <<"invalid_ohlc">> ELSE <<>>)
             \o (IF future_dates > 0 THEN <<"future_dates">> ELSE <<>>)

\* check_data_completeness: the instruments reported, {} when the query raises
check_data_completeness(v) ==
    IF QueryFails(v, 9) THEN {} ELSE Instruments(v.table)

\* generate_report
generate_report(v) ==
    [basic_statistics |-> basic_statistics(v),
     null_values |-> check_null_values(v),
     duplicates |-> check_duplicates(v),
     data_ranges |-> check_data_ranges(v),
     consistency_issues |-> check_data_consistency(v),
     completeness |-> check_data_completeness(v)]

\* print_report raises TypeError when it formats a price range of None
print_report_raises(report) ==
    \E i \in DOMAIN report.data_ranges : ~report.data_ranges[i].has_price_range

\* any(report['null_values'].values()) or duplicates or consistency_issues
critical_issues(report) ==
    \/ \E c \in DOMAIN report.null_values : report.null_values[c] > 0
    \/ report.duplicates # {}
    \/ Len(report.consistency_issues) > 0

\* run_verification
run_verification(v) ==
    IF ~v.connect THEN [report |-> <<>>, returned |-> "False", closed |-> FALSE]
    ELSE LET report == generate_report(v)
         IN  [report |-> report,
              returned |-> IF print_report_raises(report) THEN "False"
                           ELSE IF critical_issues(report) THEN "False"
                           ELSE "True",
              closed |-> TRUE]

VerifierTables == SeqsUpTo(TableRows, MaxTableRows)

VerifyInit ==
    /\ \E table \in VerifierTables :
          \/ \E n \in 0..NumQueries :
                verifier = [table |-> table, connect |-> TRUE, fail_at |-> n]
          \/ verifier = [table |-> table, connect |-> FALSE, fail_at |-> 0]
    /\ verification = NoVerification
    /\ RowIdle
    /\ ParserFresh
    /\ StoreIdle
    /\ SignalIdle

RunVerification ==
    /\ verification = NoVerification
    /\ verification' = run_verification(verifier)
    /\ UNCHANGED <<verifier, rowVars, parserVars, storeVars, signalVars>>

VerifyNext == RunVerification

SpecVerify == VerifyInit /\ [][VerifyNext]_vars

---------------------------------------------------------------------------
(* Properties of validate_row (SpecRow) *)

PriceFields == {"open", "high", "low", "close"}

Validated == row_pc = "validated"
DtParses(r) == strptime(r["datetime"]).exc = ""
PriceParses(r, f) == PyFloat(r[f]).exc = ""
\* the cell holds text that float() refuses
PriceUnparseable(r, f) == PyFloat(r[f]).exc = "ValueError"
VolumeParses(r) == PyInt(r["volume"]).exc = ""
InstrumentGiven(r) == strip(r["instrument"]).exc = "" /\ strip(r["instrument"]).val # ""
AllFieldsParse(r) ==
    /\ DtParses(r)
    /\ \A f \in PriceFields : PriceParses(r, f)
    /\ VolumeParses(r)
    /\ InstrumentGiven(r)
Price(r, f) == PyFloat(r[f]).val
RejectedWith(msg) == ~result.raised /\ ~result.is_valid /\ result.error_msg = msg
           /\ result.parsed_row = <<>>

\* C3 (as claimed): a row whose volume parses to a negative integer is rejected,
\* with a reason other than the parse-failure reason 'Invalid volume'.
C3_NegativeVolumeRejected ==
    (Validated /\ VolumeParses(row) /\ PyInt(row["volume"]).val < 0)
        => (~result.is_valid /\ result.error_msg # "Invalid volume")

\* C4 (as claimed): every row in which high < low is rejected with the
\* 'High price is less than low price' reason, whatever the other fields are.
C4_HighBelowLowWhateverElse ==
    (Validated /\ PriceParses(row, "high") /\ PriceParses(row, "low")
        /\ FLt(Price(row, "high"), Price(row, "low")))
        => RejectedWith("High price is less than low price")

\* C4 (amended): when the datetime, the four prices and the volume parse and the
\* instrument is non-empty after trimming, a row in which high < low is rejected
\* with the 'High price is less than low price' reason, whatever open and close are.
C4_HighBelowLowOnceParsed ==
    (Validated /\ AllFieldsParse(row) /\ FLt(Price(row, "high"), Price(row, "low")))
        => RejectedWith("High price is less than low price")

\* a row with high < low and also high < open was validated and got the high/low reason
C4_Witness ==
    /\ Validated /\ AllFieldsParse(row)
    /\ FLt(Price(row, "high"), Price(row, "low"))
    /\ FLt(Price(row, "high"), Price(row, "open"))
    /\ RejectedWith("High price is less than low price")

HasOuterWhitespace(s) == s \in {" TCS ", "   "}

\* C5 (as claimed): an accepted tuple satisfies high >= low, low <= open <= high,
\* low <= close <= high and carries a non-empty trimmed instrument; a row whose
\* instrument is empty after trimming, the other fields parsing, is rejected with
\* 'Empty instrument name'.
C5_AcceptedTupleIsCanonical ==
    /\ (Validated /\ result.is_valid) =>
            LET close == result.parsed_row[2]
                high == result.parsed_row[3]
                low == result.parsed_row[4]
                open_price == result.parsed_row[5]
                instrument == result.parsed_row[7]
            IN  /\ FLe(low, high)
                /\ FLe(low, open_price) /\ FLe(open_price, high)
                /\ FLe(low, close) /\ FLe(close, high)
                /\ instrument # "" /\ ~HasOuterWhitespace(instrument)
    /\ (Validated /\ DtParses(row) /\ (\A f \in PriceFields : PriceParses(row, f))
            /\ VolumeParses(row)
            /\ strip(row["instrument"]).exc = "" /\ strip(row["instrument"]).val = "")
        => RejectedWith("Empty instrument name")

\* C6: when every field parses and the instrument is non-empty, the reason is that
\* of the first failing check in the order high < low, then high < open or
\* high < close, then low > open or low > close; a row failing none is accepted.
C6_OhlcChecksInOrder ==
    (Validated /\ AllFieldsParse(row)) =>
        LET high == Price(row, "high")
            low == Price(row, "low")
            open_price == Price(row, "open")
            close == Price(row, "close")
        IN  IF FLt(high, low) THEN RejectedWith("High price is less than low price")
            ELSE IF FLt(high, open_price) \/ FLt(high, close)
                 THEN RejectedWith("High price is less than open or close")
            ELSE IF FGt(low, open_price) \/ FGt(low, close)
                 THEN RejectedWith("Low price is greater than open or close")
            ELSE ~result.raised /\ result.is_valid /\ result.error_msg = ""

\* a row passing the first check and failing both the second and the third was
\* validated and got the reason of the second
C6_Witness ==
    /\ Validated /\ AllFieldsParse(row)
    /\ ~FLt(Price(row, "high"), Price(row, "low"))
    /\ FLt(Price(row, "high"), Price(row, "close"))
    /\ FGt(Price(row, "low"), Price(row, "open"))
    /\ RejectedWith("High price is less than open or close")

\* float() does not return a number for the cell: the text is refused
\* (ValueError) or the cell is missing (None, TypeError)
PriceFails(r, f) == PyFloat(r[f]).exc # ""

\* C10 (as claimed): when the datetime parses and at least one of open, high,
\* low, close does not parse as a floating-point number, the row is rejected
\* with 'Invalid <field> price' for a price field of the row that failed.
C10_FailedPriceIsNamed ==
    (Validated /\ DtParses(row) /\ \E f \in PriceFields : PriceFails(row, f))
        => \E f \in PriceFields :
              /\ PriceFails(row, f)
              /\ RejectedWith("Invalid " \o f \o " price")

\* C10 (amended): when the datetime parses and some price cell holds text that
\* is no floating-point number, the row is rejected with 'Invalid <field> price'
\* for a price field of the row whose text did not parse.
C10_UnparseablePriceIsNamed ==
    (Validated /\ DtParses(row) /\ \E f \in PriceFields : PriceUnparseable(row, f))
        => \E f \in PriceFields :
              /\ PriceUnparseable(row, f)
              /\ RejectedWith("Invalid " \o f \o " price")

\* a row whose open and close both fail to parse was validated; close is named
C10_Witness ==
    /\ Validated /\ DtParses(row)
    /\ PriceUnparseable(row, "open") /\ PriceUnparseable(row, "close")
    /\ RejectedWith("Invalid close price")

\* the datetime texts written exactly as YYYY-MM-DD HH:MM:SS, every field
\* zero-padded
ExactDatetimeForm(s) == s \in {"2024-01-15 09:30:00", "2024-01-16 10:00:00"}

\* C11 (as claimed): a row whose datetime text is not exactly of the form
\* YYYY-MM-DD HH:MM:SS (zero-padded, seconds present) is rejected with
\* 'Invalid datetime format'; only text in that form is taken as a timestamp.
C11_OnlyExactFormatAccepted ==
    (Validated /\ ~row["datetime"].none /\ ~ExactDatetimeForm(row["datetime"].s))
        => RejectedWith("Invalid datetime format")

---------------------------------------------------------------------------
(* Properties of validate_row among other calls (SpecCalls) *)

---------------------------------------------------------------------------
(* Properties of parse_csv (SpecParse) *)

\* the rows csv.DictReader yields from the file
DataRows(f) == SelectSeq(f.lines, LAMBDA l : l # <<>>)
RowResult(f, k) == validate_row(DictRow(DataRows(f)[k])).val
FirstCallReturnedTrue == calls = 1 /\ ret = "True"

\* C2: after one parse_csv call on a fresh CSVParser that returns True over a file
\* of N data rows, len(parsed_data) + len(invalid_rows) = N.
C2_EveryRowInOneList ==
    FirstCallReturnedTrue =>
        Len(parsed_data) + Len(invalid_rows) = Len(DataRows(fs))

\* a first call returned True with rows in both lists
C2_Witness ==
    FirstCallReturnedTrue /\ Len(parsed_data) >= 1 /\ Len(invalid_rows) >= 1

\* C7: a fault inside validate_row (a missing cell, None) is returned as the
\* rejection 'Unexpected error' and never raised: over a readable file with the
\* expected header parse_csv returns True, every row is recorded, and each row
\* whose validation faulted is in invalid_rows with that reason.
C7_FaultBecomesRejection ==
    (calls = 1 /\ fs.exists /\ fs.header = expected_columns /\ fs.fault = 0) =>
        /\ ret = "True"
        /\ Len(parsed_data) + Len(invalid_rows) = Len(DataRows(fs))
        /\ \A k \in 1..Len(DataRows(fs)) :
              validate_row_try(DictRow(DataRows(fs)[k])).exc # ""
                  => \E j \in 1..Len(invalid_rows) :
                        invalid_rows[j] = <<k + 1, "Unexpected error">>

\* the first data row lacked cells, was recorded as 'Unexpected error', and a
\* later row of the same file was accepted
C7_Witness ==
    /\ FirstCallReturnedTrue
    /\ Len(DataRows(fs)) >= 2 /\ DataRows(fs)[1] = LineShort
    /\ Len(invalid_rows) >= 1 /\ invalid_rows[1] = <<2, "Unexpected error">>
    /\ Len(parsed_data) >= 1

\* C8 (as claimed): a parse_csv call that fails structurally (file missing, header
\* not the expected one, source unreadable) returns False with parsed_data,
\* invalid_rows and statistics as they were; here, on a fresh CSVParser, empty.
C8_StructuralFailureTouchesNothing ==
    (calls = 1 /\ ret = "False") =>
        parsed_data = <<>> /\ invalid_rows = <<>> /\ statistics = <<>>

\* C9: after parse_csv returns True on a fresh CSVParser, parsed_data is the
\* accepted rows in input order and invalid_rows the rejected rows in input
\* order, the k-th data row carrying the ordinal k + 1.
C9_ListsFollowInputOrder ==
    FirstCallReturnedTrue =>
        LET n == Len(DataRows(fs))
            idx == [k \in 1..n |-> k]
            acc == SelectSeq(idx, LAMBDA k : RowResult(fs, k).is_valid)
            rej == SelectSeq(idx, LAMBDA k : ~RowResult(fs, k).is_valid)
        IN  /\ parsed_data = [j \in 1..Len(acc) |-> RowResult(fs, acc[j]).parsed_row]
            /\ invalid_rows = [j \in 1..Len(rej) |->
                                  <<rej[j] + 1, RowResult(fs, rej[j]).error_msg>>]

\* two different rows were accepted around a rejected one, which has ordinal 3
C9_Witness ==
    /\ FirstCallReturnedTrue
    /\ Len(parsed_data) = 2 /\ parsed_data[1] # parsed_data[2]
    /\ Len(invalid_rows) = 1 /\ invalid_rows[1][1] = 3

---------------------------------------------------------------------------
(* Properties of the table (SpecStore) *)

\* the CanonicalRecord invariants of a stored row
Canonical(r) ==
    /\ FLe(r.low, r.open) /\ FLe(r.open, r.high)
    /\ FLe(r.low, r.close) /\ FLe(r.close, r.high)
    /\ r.volume >= 0
    /\ strip(Str(r.instrument)).val # ""

\* C1 (as claimed): every row of the table satisfies low <= open <= high,
\* low <= close <= high, volume >= 0 and has a non-empty instrument, whichever
\* of POST /data, StockDataImporter and LocalDataImporter stored it.
C1_StoredRowsAreCanonical ==
    \A k \in 1..Len(store) : Canonical(store[k])

---------------------------------------------------------------------------
(* Properties of statistics (SpecParse) *)

\* x <= y for two values of one column
LessEq(kind, x, y) ==
    CASE kind = "datetime" -> x = y \/ DtLt(x, y)
      [] kind = "float" -> x = y \/ FLe(x, y)
      [] OTHER -> x <= y

\* pair is (least, greatest) of the values of the list s
IsMinMax(kind, pair, s) ==
    /\ pair[1] \in Range(s) /\ pair[2] \in Range(s)
    /\ \A x \in Range(s) : LessEq(kind, pair[1], x) /\ LessEq(kind, x, pair[2])

\* C13 (as claimed): after parse_csv returns True, statistics is empty when
\* parsed_data is, and otherwise total_rows and invalid_rows are the lengths of
\* the two lists, date_range, price_range and volume_range are the (min, max)
\* of the accepted timestamps, closes and volumes, and unique_instruments is
\* the number of distinct accepted instruments.
C13_StatisticsProjectLists ==
    (calls >= 1 /\ ret = "True") =>
        IF Len(parsed_data) = 0 THEN statistics = <<>>
        ELSE /\ statistics.total_rows = Len(parsed_data)
             /\ statistics.invalid_rows = Len(invalid_rows)
             /\ IsMinMax("datetime", statistics.date_range, Column(parsed_data, 1))
             /\ IsMinMax("float", statistics.price_range, Column(parsed_data, 2))
             /\ IsMinMax("int", statistics.volume_range, Column(parsed_data, 6))
             /\ statistics.unique_instruments
                    = Cardinality({parsed_data[k][7] : k \in 1..Len(parsed_data)})

---------------------------------------------------------------------------
(* Properties of get_strategy_performance (SpecSignal) *)

Answered == summary # NoSummary
\* the request was answered with the summary computed from a DataFrame
Computed == Answered /\ strategy_df # <<>>
Rows == 1..Len(query.rows)

\* C14 (as claimed): for the closes 100 (10 rows) then 200 (15 rows) with
\* windows 5 and 20 there is at least one buy event, a row whose position is
\* 2, and the signal is 1 on the late rows.
C14_StepUpSeriesHasBuy ==
    (Answered /\ query = StepUpQuery) =>
        /\ Computed
        /\ summary.num_buys >= 1
        /\ \E i \in Rows : strategy_df.position[i] = 2
        /\ \A i \in Rows : i > query.long_window => strategy_df.signal[i] = 1

\* C15: position is the signal minus the previous signal, 0 on the first row;
\* a buy event is recorded at a row exactly when it is not the first row, the
\* previous signal is -1 and the signal is +1, and a sell event exactly when
\* the previous signal is +1 and the signal is -1; so the first row is never
\* an event and a reversal through signal 0 records none.
C15_EventsAreSameStepFlips ==
    Computed =>
        \A i \in Rows :
            /\ strategy_df.position[i] =
                    IF i = 1 THEN 0 ELSE strategy_df.signal[i] - strategy_df.signal[i - 1]
            /\ (\E k \in 1..Len(summary.buy_signals) : summary.buy_signals[k] = i)
                    <=> (i > 1 /\ strategy_df.signal[i - 1] = -1 /\ strategy_df.signal[i] = 1)
            /\ (\E k \in 1..Len(summary.sell_signals) : summary.sell_signals[k] = i)
                    <=> (i > 1 /\ strategy_df.signal[i - 1] = 1 /\ strategy_df.signal[i] = -1)

\* a request was answered with a buy event at a row where the signal flipped
\* from -1 to +1
C15_Witness ==
    /\ Computed
    /\ \E i \in Rows \ {1} :
          /\ strategy_df.signal[i - 1] = -1 /\ strategy_df.signal[i] = 1
          /\ summary.buy_signals = <<i>>

\* C16: on every row the signal is +1 if short_ma > long_ma, -1 if
\* short_ma < long_ma and 0 if they are equal, so it is one of -1, 0, 1.
C16_SignalIsSignOfDifference ==
    Computed =>
        \A i \in Rows :
            LET short_ma == strategy_df.short_ma[i]
                long_ma == strategy_df.long_ma[i]
                signal == strategy_df.signal[i]
            IN  /\ signal \in {-1, 0, 1}
                /\ short_ma.n * long_ma.d > long_ma.n * short_ma.d => signal = 1
                /\ short_ma.n * long_ma.d < long_ma.n * short_ma.d => signal = -1
                /\ short_ma.n * long_ma.d = long_ma.n * short_ma.d => signal = 0

\* a request was answered with all three signal values in one series
C16_Witness ==
    /\ Computed
    /\ \E i, j, k \in Rows :
          /\ strategy_df.signal[i] = -1
          /\ strategy_df.signal[j] = 0
          /\ strategy_df.signal[k] = 1

RECURSIVE SumSeq(_)
SumSeq(q) == IF q = <<>> THEN 0 ELSE Head(q) + SumSeq(Tail(q))

\* the arithmetic mean of the min(w, i) closes ending at row i
TrailingMean(close, w, i) ==
    Frac(SumSeq(SubSeq(close, i - Min2(w, i) + 1, i)), Min2(w, i))

\* C17: on every row i each moving average is the arithmetic mean of the
\* min(w, i) closes ending at row i (row i being the i-th row): it is defined
\* from the first row on and is the same whatever closes follow row i.
C17_MovingAverageIsTrailingMean ==
    Computed =>
        \A i \in Rows :
            /\ strategy_df.short_ma[i] = TrailingMean(query.rows, query.short_window, i)
            /\ strategy_df.long_ma[i] = TrailingMean(query.rows, query.long_window, i)
            /\ strategy_df.short_ma[i]
                    = rolling_mean(SubSeq(query.rows, 1, i), query.short_window)[i]
            /\ strategy_df.long_ma[i]
                    = rolling_mean(SubSeq(query.rows, 1, i), query.long_window)[i]

\* a request was answered over a series longer than the short window and
\* with rows before the long window is full
C17_Witness ==
    /\ Computed
    /\ query.short_window = 2 /\ query.long_window = 3
    /\ Len(query.rows) >= 4
    /\ query.rows[1] # query.rows[3] /\ query.rows[2] # query.rows[4]

\* C18: when the query returns no rows the answer is the 'no data' message
\* alone, with status 200, and no DataFrame is built, whatever the windows.
C18_NoRowsGivesSentinel ==
    (Answered /\ query.connect /\ query.execute_ok /\ Len(query.rows) = 0) =>
        /\ summary = NoDataFound
        /\ DOMAIN summary = {"status", "message"}
        /\ summary.status = 200
        /\ strategy_df = <<>>

\* a request with no rows and a window no rolling mean accepts was answered
\* with the message
C18_Witness ==
    /\ Answered /\ query.connect /\ query.execute_ok
    /\ Len(query.rows) = 0 /\ query.short_window = 0
    /\ summary = NoDataFound

ConstantSeries == \A i, j \in Rows : query.rows[i] = query.rows[j]

\* C19: for a series whose closes are all equal, with windows >= 1, the
\* signal is 0 on every row, there is no buy or sell event, and
\* cumulative_return is 0.
C19_ConstantSeriesIsFlat ==
    (Answered /\ query.connect /\ query.execute_ok /\ Len(query.rows) >= 1
        /\ query.short_window >= 1 /\ query.long_window >= 1 /\ ConstantSeries) =>
        /\ Computed
        /\ \A i \in Rows : strategy_df.signal[i] = 0
        /\ summary.buy_signals = <<>> /\ summary.sell_signals = <<>>
        /\ summary.cumulative_return.n = 0

\* a constant series longer than the short window was answered, the windows
\* being different
C19_Witness ==
    /\ Computed /\ ConstantSeries
    /\ Len(query.rows) >= 3
    /\ query.short_window = 1 /\ query.long_window = 2
    /\ summary.cumulative_return.n = 0

\* the product of 1 + strat[k] over the rows 1..i, in time order
RECURSIVE Compounded(_, _)
Compounded(strat, i) ==
    IF i = 0 THEN Frac(1, 1)
    ELSE FracMul(Compounded(strat, i - 1), Frac(strat[i].n + strat[i].d, strat[i].d))

\* C20: the strategy return of the first row is 0 and that of a later row i is
\* r[i] * signal[i-1] with r[i] = close[i] / close[i-1] - 1, and
\* cumulative_return is the product of 1 + strat[i] over all rows, minus 1; so
\* the signal of the last row does not enter it and a row whose previous
\* signal is 0 contributes the factor 1.
C20_ReturnUsesPreviousSignal ==
    Computed =>
        LET close == query.rows
            strat == strategy_df.strategy_returns
            product == Compounded(strat, Len(close))
        IN  /\ \A i \in Rows :
                  strat[i] = IF i = 1 THEN Frac(0, 1)
                             ELSE Frac((close[i] - close[i - 1]) * strategy_df.signal[i - 1],
                                       close[i - 1])
            /\ \A i \in Rows \ {1} : strategy_df.signal[i - 1] = 0 => strat[i].n = 0
            /\ summary.cumulative_return = Frac(product.n - product.d, product.d)

\* a request was answered in which a rising close followed a row with signal
\* -1 and the last row has signal +1: the return is negative
C20_Witness ==
    /\ Computed
    /\ Len(query.rows) >= 3
    /\ \E i \in Rows \ {1} :
          /\ strategy_df.signal[i - 1] = -1
          /\ query.rows[i] > query.rows[i - 1]
          /\ strategy_df.strategy_returns[i].n < 0
    /\ strategy_df.signal[Len(query.rows)] = 1
    /\ summary.cumulative_return.n < 0

\* C21: every summary computed from a DataFrame is self-consistent: num_buys
\* and num_sells are the lengths of the two event lists, total_trades is the
\* smaller of the two counts, and short_window and long_window are the values
\* of the request.
C21_SummaryIsSelfConsistent ==
    Computed =>
        /\ summary.num_buys = Len(summary.buy_signals)
        /\ summary.num_sells = Len(summary.sell_signals)
        /\ summary.total_trades <= summary.num_buys
        /\ summary.total_trades <= summary.num_sells
        /\ summary.total_trades \in {summary.num_buys, summary.num_sells}
        /\ summary.short_window = query.short_window
        /\ summary.long_window = query.long_window

\* a summary with one buy and no sell, so that the smaller count differs
\* from the larger, for windows that are not the defaults
C21_Witness ==
    /\ Computed
    /\ summary.num_buys = 1 /\ summary.num_sells = 0 /\ summary.total_trades = 0
    /\ summary.short_window = 1 /\ summary.long_window = 3

\* C22: a request with rows and two positive windows is answered with a
\* computed summary whatever the order of the windows; with equal windows
\* every signal is 0, there is no buy and no sell event, total_trades is 0
\* and cumulative_return is 0.
C22_EqualWindowsGiveNoSignal ==
    (/\ Answered /\ query.connect /\ query.execute_ok /\ Len(query.rows) > 0
     /\ query.short_window >= 1 /\ query.long_window >= 1) =>
        /\ Computed
        /\ summary.status = 200
        /\ query.short_window = query.long_window =>
              /\ \A i \in Rows : strategy_df.signal[i] = 0
              /\ summary.buy_signals = <<>> /\ summary.sell_signals = <<>>
              /\ summary.total_trades = 0
              /\ summary.cumulative_return = Frac(0, 1)

\* equal windows over closes that are not all equal, answered
C22_Witness ==
    /\ Computed
    /\ query.short_window = 2 /\ query.long_window = 2
    /\ \E i, j \in Rows : query.rows[i] # query.rows[j]
    /\ summary.total_trades = 0

\* C26 (as claimed): between two buy events of one answer there is a sell
\* event, between two sell events there is a buy event, and so num_buys and
\* num_sells differ by at most 1.
C26_BuysAndSellsAlternate ==
    Computed =>
        LET buys == {summary.buy_signals[k] : k \in 1..Len(summary.buy_signals)}
            sells == {summary.sell_signals[k] : k \in 1..Len(summary.sell_signals)}
        IN  /\ \A i, j \in buys : i < j => \E k \in sells : i < k /\ k < j
            /\ \A i, j \in sells : i < j => \E k \in buys : i < k /\ k < j
            /\ summary.num_buys - summary.num_sells \in {-1, 0, 1}

---------------------------------------------------------------------------
(* Properties of POST /data (SpecStore) *)

\* a POST /data request was answered
Posted == response.op = "add_data"

\* the body has a price that is not a number, lacks a required member, or
\* has a negative volume
FailsValidation(body) ==
    \/ \E f \in {"date", "open", "high", "low", "close", "volume"} : body[f].none
    \/ \E f \in {"open", "high", "low", "close"} : body[f].s \in {"invalid", "abc"}
    \/ body.volume.s = "-1"

\* the members of a body as the fields of a StockData
AsStockData(body) ==
    [datetime |-> body.date, open |-> body.open, high |-> body.high, low |-> body.low,
     close |-> body.close, volume |-> body.volume, instrument |-> body.instrument]

\* the body differs from a valid one in its volume only, which is a whole number
OnlyVolumeVaries(body) ==
    \E v \in VolumeValues : body = [BodyValid EXCEPT !.volume = Str(ToString(v))]

\* what the two models do with the volume of the request: both raise when it
\* is negative and both accept it otherwise
ModelsJudgeVolume ==
    OnlyVolumeVaries(request.body) =>
        LET v == CHOOSE n \in VolumeValues : request.body.volume.s = ToString(n)
        IN  /\ (StockDataCreate(request.body).exc # "") <=> (v < 0)
            /\ (StockData(AsStockData(request.body)).exc # "") <=> (v < 0)

\* C23 (as claimed): a POST /data request whose body fails validation is
\* answered 422 and no INSERT and no commit is issued; StockData and
\* StockDataCreate raise for a negative volume and accept any other when the
\* remaining fields are valid.
C23_InvalidBodyAnswered422 ==
    Posted =>
        /\ FailsValidation(request.body) =>
              /\ response.status = 422
              /\ response.inserts = 0 /\ response.committed = 0
        /\ ModelsJudgeVolume

\* C23 (amended): the same for every request whose database connection was
\* made; without a connection the request is answered 500 before the body is
\* looked at, and in both cases nothing is inserted or committed.
C23_InvalidBodyAnswered422WhenConnected ==
    Posted =>
        /\ FailsValidation(request.body) =>
              /\ response.status = IF request.env.connect THEN 422 ELSE 500
              /\ response.inserts = 0 /\ response.committed = 0
        /\ ModelsJudgeVolume
        /\ (request.env.connect /\ OnlyVolumeVaries(request.body)) =>
              (response.status = 422 <=> request.body.volume.s = "-1")

\* a body with a negative volume and nothing else wrong, refused with 422
\* over an open connection
C23_Witness ==
    /\ Posted
    /\ request.body = BodyNegativeVolume
    /\ request.env.connect
    /\ response.status = 422 /\ response.inserts = 0

---------------------------------------------------------------------------
(* Order of the checks of validate_row (SpecRow) *)

\* every cell of the row is present
AllCellsGiven(r) == \A f \in DOMAIN r : ~r[f].none

\* the message of the first check that fails when the checks are made in the
\* order datetime, open, high, low, close, volume, instrument ("" if none of
\* them fails)
FirstFailureInListedOrder(r) ==
    IF ~DtParses(r) THEN "Invalid datetime format"
    ELSE IF PriceUnparseable(r, "open") THEN "Invalid open price"
    ELSE IF PriceUnparseable(r, "high") THEN "Invalid high price"
    ELSE IF PriceUnparseable(r, "low") THEN "Invalid low price"
    ELSE IF PriceUnparseable(r, "close") THEN "Invalid close price"
    ELSE IF ~VolumeParses(r) THEN "Invalid volume"
    ELSE IF ~InstrumentGiven(r) THEN "Empty instrument name"
    ELSE ""

\* C24 (as claimed): a row with all its cells, of which several checks fail,
\* is rejected with the message of the first failing check in the order
\* datetime, open, high, low, close, volume, instrument, and with a message of
\* the OHLC relations only when none of these fails; a row whose open and
\* close are both unparseable is rejected with 'Invalid open price'.
C24_FirstFailureInListedOrder ==
    (Validated /\ AllCellsGiven(row)) =>
        /\ FirstFailureInListedOrder(row) # ""
                => RejectedWith(FirstFailureInListedOrder(row))
        /\ (/\ DtParses(row)
            /\ PriceUnparseable(row, "open") /\ PriceUnparseable(row, "close"))
                => RejectedWith("Invalid open price")

---------------------------------------------------------------------------
(* A second call of parse_csv (SpecParse) *)

\* C25 (as claimed): a second call of parse_csv on the same CSVParser over
\* the same file leaves parsed_data, invalid_rows and statistics as the first
\* call left them.
C25_SecondCallChangesNothing ==
    [][(calls = 1 /\ calls' = 2 /\ fs' = fs)
            => UNCHANGED <<parsed_data, invalid_rows, statistics>>]_vars

---------------------------------------------------------------------------
(* Properties of the import runs (SpecStore) *)

\* C27 (as claimed): a call of insert_data_batch either commits every record
\* of data and returns len(data), or commits none and returns 0.
C27_InsertDataBatchAllOrNothing ==
    (response.op = "run_import" /\ response.inserts > 0) =>
        \/ response.committed = response.data_len /\ response.count = response.data_len
        \/ response.committed = 0 /\ response.count = 0

\* C28 (as claimed): the count insert_data returns is the number of rows of
\* df the call committed.
C28_InsertDataCountsCommittedRows ==
    (response.op = "local_run_import" /\ response.connected) =>
        response.count = response.committed

\* C30 (as claimed): a run of StockDataImporter.run_import issues an INSERT
\* only if the file exists, the connection was made, the user answered y
\* (in either case) when the table held rows before the run, and parsing
\* gave at least one row; it returns True only if insert_data_batch returned
\* a positive count; and a connection that was made is closed at the end.
C30_RunImportPreconditions ==
    [][response'.op = "run_import" =>
        /\ response'.inserts > 0 =>
              /\ request'.file.exists
              /\ request'.env.connect
              /\ Len(store) > 0 => lower(request'.env.answer) = "y"
              /\ response'.data_len > 0
        /\ response'.returned = "True" => response'.count > 0
        /\ response'.connected => response'.closed]_vars

---------------------------------------------------------------------------
(* Properties of run_verification (SpecVerify) *)

\* what the table holds, whatever the checks report
HoldsNull(table) == \E k \in 1..Len(table) : table[k].nulls # {}
HoldsDuplicate(table) ==
    \E j, k \in 1..Len(table) :
        j # k /\ table[j].datetime = table[k].datetime
              /\ table[j].instrument = table[k].instrument
HoldsInconsistency(table) ==
    \E k \in 1..Len(table) :
        LET r == table[k]
        IN  \/ \E c \in {"close", "high", "low", "open", "volume"} : SqlNegative(r, c)
            \/ SqlLt(r, "high", "low") \/ SqlLt(r, "high", "open")
            \/ SqlLt(r, "high", "close") \/ SqlLt(r, "open", "low")
            \/ SqlLt(r, "close", "low")
            \/ r.datetime > 0

\* C29 (as claimed): run_verification returns True only if every check ran
\* without a database error and the table holds no NULL, no duplicate and no
\* consistency issue.
C29_TrueOnlyIfEveryCheckRanClean ==
    (verification # NoVerification /\ verification.returned = "True") =>
        /\ verifier.connect
        /\ verifier.fail_at = 0
        /\ ~HoldsNull(verifier.table)
        /\ ~HoldsDuplicate(verifier.table)
        /\ ~HoldsInconsistency(verifier.table)

====
